---- MODULE Spec2Model ----
(***************************************************************************)
(* Model of src/main.py: balls bouncing inside a fixed circle, splitting   *)
(* on boundary impact.                                                     *)
(*                                                                         *)
(* Python floats are modelled as fixed-point integers: lengths and         *)
(* velocities in 1/Scale pixel, unit vectors (cos, sin) in 1/Unit.  Every  *)
(* product stays below 2^31.  sqrt is the integer square root, a division  *)
(* rounds to the nearest integer, and the comparisons of a distance or a   *)
(* speed against a constant are made exactly, on the squares.              *)
(* The colour of a ball (random.choice(COLORS)) is not modelled: nothing   *)
(* but the renderer reads it.                                              *)
(***************************************************************************)
EXTENDS Integers, Sequences, FiniteSets, TLC

VARIABLES
    balls,      \* main(): the list `balls`, a sequence of ball records
    running,    \* main(): the flag `running`
    pc,         \* position in the body of `while running`
    i,          \* index of `for ball in balls` (1-based)
    tick,       \* number of the current pass of the while loop (1-based)
    nclicks,    \* MOUSEBUTTONDOWN events handled so far
    nextId,     \* history: identity given to the next ball constructed
    seedVx,     \* history: random.uniform(-2, 2) drawn for the seed ball
    prevLen,    \* history: len(balls) when the previous pass was rendered
    accepted,   \* history: clicks that passed the test of line 208
    lastClick   \* history: mouse position of the last click, in pixels

vars == <<balls, running, pc, i, tick, nclicks, nextId, seedVx, prevLen, accepted,
          lastClick>>

-----------------------------------------------------------------------------
(* Bounds of the model *)

MaxTicks == 45          \* passes of the while loop explored
MaxClicks == 1          \* mouse clicks in a behaviour
MaxCalls == 3           \* method calls in a behaviour of BallSpec
MaxSwaps == 2           \* adjacent pairs of the collection exchanged
MaxStart == 3           \* balls in a starting collection of LoopSpec
LiveTicks == 140        \* passes of the while loop explored by LiveSpec
ClickWindow == 2        \* clicks arrive during the first ClickWindow passes
SpeedTol == 2           \* rounding tolerance of a rescaled speed, in 1/Scale

-----------------------------------------------------------------------------
(* Fixed point *)

Scale == 100
Unit == Scale * Scale
Px(n) == n * Scale

\* rounding division, b > 0
RDiv(a, b) == (2 * a + b) \div (2 * b)

RECURSIVE SqrtSearch(_, _, _)
SqrtSearch(n, lo, hi) ==
    IF lo >= hi THEN lo
    ELSE LET mid == (lo + hi + 1) \div 2
         IN  IF mid * mid <= n THEN SqrtSearch(n, mid, hi)
                               ELSE SqrtSearch(n, lo, mid - 1)

\* math.sqrt on fixed-point squares: floor of the square root
Sqrt(n) == SqrtSearch(n, 0, 46340)

-----------------------------------------------------------------------------
(* Program constants *)

WIDTH == 800
HEIGHT == 600
BOUNDARY_RADIUS == 250
MIN_BALL_RADIUS == 10
INITIAL_BALL_RADIUS == 30
SPLIT_FORCE == 8
SPLIT_ANGLE == 30
MAX_SPEED == 15
COOLDOWN == 5

CENTER_X == Px(WIDTH \div 2)
CENTER_Y == Px(HEIGHT \div 2)
BoundaryR == Px(BOUNDARY_RADIUS)
GRAVITY == Scale \div 2
MaxSpeed == Px(MAX_SPEED)

\* cos and sin of math.radians(SPLIT_ANGLE), in 1/Unit
CosSplit == 8660
SinSplit == Unit \div 2

\* min_speed = math.sqrt(2 * GRAVITY * BOUNDARY_RADIUS) * 1.2
min_speed == RDiv(Sqrt(2 * GRAVITY * BoundaryR) * 12, 10)

-----------------------------------------------------------------------------
(* Inputs *)

\* random.uniform(-2, 2) of the seed ball
SeedVx == {0, 150}

\* pygame.mouse.get_pos(): integer pixels
ClickPoints == {<<384, 52>>, <<400, 400>>, <<631, 268>>, <<650, 300>>, <<700, 300>>}

\* random.uniform(-4, 4) twice
ClickVels == {<<200, -100>>, <<0, -50>>, <<-300, -350>>}

-----------------------------------------------------------------------------
(* class Ball *)

\* Ball.__init__, with the history fields of the model
\*   id, parent   identity of the ball and of the ball it was split from (0: none)
\*   origin, born where it was constructed ("seed", "click", "split"), in which pass
\*   nupd         updates of this pass that found it active
\*   hit          the boundary-collision branch fired in its last update
\*   suppressed   its last update predicted a position outside with cooldown > 0
\*   sinceHit     updates since the branch last fired (-1: it never did)
\*   gap          passes between the last two firings (0: fewer than two)
Ball(x, y, radius, vx, vy, id, origin, born, parent) ==
    [x |-> x, y |-> y, radius |-> radius, vx |-> vx, vy |-> vy,
     should_split |-> FALSE, active |-> TRUE, collision_cooldown |-> 0,
     id |-> id, parent |-> parent, origin |-> origin, born |-> born,
     nupd |-> 0, hit |-> FALSE, suppressed |-> FALSE, sinceHit |-> -1, gap |-> 0]

\* (cos(a), sin(a)) for a = math.atan2(dy, dx), in 1/Unit; atan2(0, 0) = 0
Direction(dx, dy) ==
    IF dx = 0 /\ dy = 0 THEN <<Unit, 0>>
    ELSE LET d == Sqrt(dx * dx + dy * dy)
         IN  <<RDiv(dx * Unit, d), RDiv(dy * Unit, d)>>

Speed2(b) == b.vx * b.vx + b.vy * b.vy

Dist2(x, y) == (x - CENTER_X) * (x - CENTER_X) + (y - CENTER_Y) * (y - CENTER_Y)

\* sqrt((x-CENTER_X)^2 + (y-CENTER_Y)^2) + radius > BOUNDARY_RADIUS
Outside(x, y, radius) ==
    Dist2(x, y) > (BoundaryR - radius) * (BoundaryR - radius)

\* mutant: the speed is never clamped
clamp_speed_off(b) == b

clamp_speed(b) ==
    IF Speed2(b) > MaxSpeed * MaxSpeed
    THEN LET speed == Sqrt(Speed2(b))
         IN  [b EXCEPT !.vx = RDiv(b.vx * MaxSpeed, speed),
                       !.vy = RDiv(b.vy * MaxSpeed, speed)]
    ELSE b

\* mutant: the position is never corrected
keep_in_bounds_off(b) == b

keep_in_bounds(b) ==
    IF Outside(b.x, b.y, b.radius)
    THEN LET n == Direction(b.x - CENTER_X, b.y - CENTER_Y)
             reach == BoundaryR - b.radius - Px(1)
         IN  [b EXCEPT !.x = CENTER_X + RDiv(reach * n[1], Unit),
                       !.y = CENTER_Y + RDiv(reach * n[2], Unit)]
    ELSE b

\* update, lines 81-82: gravity, then the speed clamp
Accelerate(b) == clamp_speed([b EXCEPT !.vy = @ + GRAVITY])

\* mutant: the cooldown does not suppress the branch
Collides_no_cooldown(b) == Outside(b.x + b.vx, b.y + b.vy, b.radius)

\* update, line 91: the test of the boundary-collision branch
Collides(b) ==
    /\ Outside(b.x + b.vx, b.y + b.vy, b.radius)
    /\ b.collision_cooldown = 0

\* update, lines 93-102: the velocity reflected about the normal at (x, y)
Reflect(b) ==
    LET n == Direction(b.x - CENTER_X, b.y - CENTER_Y)
        dot_product == RDiv(b.vx * n[1] + b.vy * n[2], Unit)
    IN  [b EXCEPT !.vx = b.vx - RDiv(2 * dot_product * n[1], Unit),
                  !.vy = b.vy - RDiv(2 * dot_product * n[2], Unit)]

\* update, lines 105-110: min_speed / current_speed divides by zero
RescaleFails(b) == Speed2(b) < min_speed * min_speed /\ Sqrt(Speed2(b)) = 0

\* mutant: no minimum speed after the bounce
Bounce_no_min(b) == [b EXCEPT !.should_split = TRUE, !.collision_cooldown = COOLDOWN]

\* update, lines 105-113
Bounce(b) ==
    LET r == IF Speed2(b) < min_speed * min_speed
             THEN LET current_speed == Sqrt(Speed2(b))
                  IN  [b EXCEPT !.vx = RDiv(b.vx * min_speed, current_speed),
                                !.vy = RDiv(b.vy * min_speed, current_speed)]
             ELSE b
    IN  [r EXCEPT !.should_split = TRUE, !.collision_cooldown = COOLDOWN]

\* update raises ZeroDivisionError
UpdateFails(b) ==
    /\ b.active
    /\ Collides(Accelerate(b))
    /\ RescaleFails(Reflect(Accelerate(b)))

\* mutant: the cooldown is never decremented
Advance_keep_cooldown(b) == keep_in_bounds([b EXCEPT !.x = @ + b.vx, !.y = @ + b.vy])

\* update, lines 116-123: move, containment clamp, cooldown
Advance(b) ==
    LET m == keep_in_bounds([b EXCEPT !.x = @ + b.vx, !.y = @ + b.vy])
    IN  [m EXCEPT !.collision_cooldown = IF @ > 0 THEN @ - 1 ELSE @]

\* Ball.update: the ball after the call
update(b) ==
    IF ~b.active THEN b
    ELSE LET a == Accelerate(b)
         IN  IF Collides(a) THEN Advance(Bounce(Reflect(a))) ELSE Advance(a)

\* Ball.update: the value returned
update_result(b) == b.active

\* mutant: no minimum radius
CanSplit_any_radius(b) == b.active

\* mutant: no ball can split
CanSplit_never(b) == FALSE

\* Ball.split, line 128
CanSplit(b) == b.radius > Px(MIN_BALL_RADIUS) /\ b.active

\* mutant: the radius is halved
ChildRadius_half(radius) == radius \div 2

\* Ball.split, line 129
ChildRadius(radius) == RDiv(radius * 10, 14)

\* mutant: the child is as large as its parent
Child_same_radius(b, sign) ==
    LET base == Direction(b.vx, b.vy)
        cosA == RDiv(base[1] * CosSplit - sign * base[2] * SinSplit, Unit)
        sinA == RDiv(base[2] * CosSplit + sign * base[1] * SinSplit, Unit)
    IN  keep_in_bounds(Ball(b.x, b.y, b.radius,
                            RDiv(Px(SPLIT_FORCE) * cosA, Unit),
                            RDiv(Px(SPLIT_FORCE) * sinA, Unit),
                            0, "split", 0, b.id))

\* Ball.split, lines 138-147: the child at base_angle + sign * split_angle_rad
Child(b, sign) ==
    LET base == Direction(b.vx, b.vy)
        cosA == RDiv(base[1] * CosSplit - sign * base[2] * SinSplit, Unit)
        sinA == RDiv(base[2] * CosSplit + sign * base[1] * SinSplit, Unit)
    IN  keep_in_bounds(Ball(b.x, b.y, ChildRadius(b.radius),
                            RDiv(Px(SPLIT_FORCE) * cosA, Unit),
                            RDiv(Px(SPLIT_FORCE) * sinA, Unit),
                            0, "split", 0, b.id))

\* mutant: the guard of line 128 is missing
split_unguarded(b) == <<Child(b, 1), Child(b, -1)>>

\* mutant: a split makes three balls
split_three(b) == IF CanSplit(b) THEN <<Child(b, 1), Child(b, -1), Child(b, 1)>> ELSE <<>>

\* Ball.split: the list returned
split(b) == IF CanSplit(b) THEN <<Child(b, 1), Child(b, -1)>> ELSE <<>>

\* mutant: the parent stays active
split_self_keep(b) == b

\* Ball.split: the ball after the call
split_self(b) == IF CanSplit(b) THEN [b EXCEPT !.active = FALSE] ELSE b

-----------------------------------------------------------------------------
(* main *)

Init ==
    /\ seedVx \in SeedVx
    /\ balls = <<Ball(CENTER_X, CENTER_Y - Px(100), Px(INITIAL_BALL_RADIUS),
                      seedVx, 0, 1, "seed", 0, 0)>>
    /\ running = TRUE
    /\ pc = "events"
    /\ i = 0
    /\ tick = 1
    /\ nclicks = 0
    /\ nextId = 2
    /\ prevLen = 1
    /\ accepted = 0
    /\ lastClick = <<0, 0>>

\* lines 204-205: a QUIT event
Quit ==
    /\ pc = "events"
    /\ running' = FALSE
    /\ UNCHANGED <<balls, pc, i, tick, nclicks, nextId, seedVx, prevLen, accepted, lastClick>>

\* mutant: a click on the circle is accepted
ClickAccepted_le(mx, my) ==
    (mx - WIDTH \div 2) * (mx - WIDTH \div 2) + (my - HEIGHT \div 2) * (my - HEIGHT \div 2)
        <= BOUNDARY_RADIUS * BOUNDARY_RADIUS

\* line 208
ClickAccepted(mx, my) ==
    (mx - WIDTH \div 2) * (mx - WIDTH \div 2) + (my - HEIGHT \div 2) * (my - HEIGHT \div 2)
        < BOUNDARY_RADIUS * BOUNDARY_RADIUS

\* lines 206-217: a MOUSEBUTTONDOWN event with the mouse at (mx, my)
Click(mx, my, vx, vy) ==
    /\ pc = "events"
    /\ nclicks < MaxClicks
    /\ tick <= ClickWindow
    /\ nclicks' = nclicks + 1
    /\ IF ClickAccepted(mx, my)
       THEN /\ balls' = Append(balls, Ball(Px(mx), Px(my), Px(INITIAL_BALL_RADIUS),
                                           vx, vy, nextId, "click", tick, 0))
            /\ nextId' = nextId + 1
            /\ accepted' = accepted + 1
       ELSE UNCHANGED <<balls, nextId, accepted>>
    /\ lastClick' = <<mx, my>>
    /\ UNCHANGED <<running, pc, i, tick, seedVx, prevLen>>

\* line 203 exhausted, line 220 entered
BeginUpdate ==
    /\ pc = "events"
    /\ pc' = "update"
    /\ i' = 1
    /\ balls' = [k \in 1..Len(balls) |-> [balls[k] EXCEPT !.nupd = 0, !.hit = FALSE,
                                                          !.suppressed = FALSE]]
    /\ UNCHANGED <<running, tick, nclicks, nextId, seedVx, prevLen, accepted, lastClick>>

\* history fields of a ball after the update of this pass
Noted(before, after) ==
    LET h == after.should_split
        s == IF h THEN 0 ELSE IF before.sinceHit < 0 THEN -1 ELSE before.sinceHit + 1
        g == IF h /\ before.sinceHit >= 0 THEN before.sinceHit + 1 ELSE 0
        a == Accelerate(before)
        q == /\ before.active
             /\ before.collision_cooldown > 0
             /\ Outside(a.x + a.vx, a.y + a.vy, a.radius)
    IN  [after EXCEPT !.nupd = IF before.active THEN @ + 1 ELSE @,
                      !.hit = h, !.suppressed = q, !.sinceHit = s, !.gap = g]

Numbered(kids) ==
    [k \in 1..Len(kids) |-> [kids[k] EXCEPT !.id = nextId + k - 1, !.born = tick]]

\* mutant: the flag is left set
ClearFlag_keep(b) == b

\* line 225: ball.should_split = False
ClearFlag(b) == [b EXCEPT !.should_split = FALSE]

\* lines 220-225: one iteration of `for ball in balls`
StepBall ==
    /\ pc = "update"
    /\ i <= Len(balls)
    /\ ~UpdateFails(balls[i])
    /\ LET u == Noted(balls[i], update(balls[i]))
           new_balls == IF u.should_split THEN split(u) ELSE <<>>
           s == IF u.should_split THEN split_self(u) ELSE u
       IN  /\ balls' = [balls EXCEPT ![i] = ClearFlag(s)]
                           \o Numbered(new_balls)
           /\ nextId' = nextId + Len(new_balls)
    /\ i' = i + 1
    /\ UNCHANGED <<running, pc, tick, nclicks, seedVx, prevLen, accepted, lastClick>>

\* line 221 raises ZeroDivisionError: the process ends.  The velocity written
\* before the exception is not recorded, nothing reads the ball afterwards.
StepBallFails ==
    /\ pc = "update"
    /\ i <= Len(balls)
    /\ UpdateFails(balls[i])
    /\ pc' = "crashed"
    /\ UNCHANGED <<balls, running, i, tick, nclicks, nextId, seedVx, prevLen, accepted, lastClick>>

\* lines 220-225: the rest of the update loop, from index j of the list bs,
\* the next ball constructed getting identity nid; the list when the loop
\* ends, and whether it ended by an update that raised
RECURSIVE LoopFrom(_, _, _)
LoopFrom(bs, j, nid) ==
    IF j > Len(bs) THEN [balls |-> bs, failed |-> FALSE]
    ELSE IF UpdateFails(bs[j]) THEN [balls |-> bs, failed |-> TRUE]
    ELSE LET u == Noted(bs[j], update(bs[j]))
             new_balls == IF u.should_split THEN split(u) ELSE <<>>
             s == IF u.should_split THEN split_self(u) ELSE u
             numbered == [k \in 1..Len(new_balls) |->
                            [new_balls[k] EXCEPT !.id = nid + k - 1, !.born = tick]]
         IN  LoopFrom([bs EXCEPT ![j] = ClearFlag(s)] \o numbered, j + 1,
                      nid + Len(new_balls))

\* mutant: nothing is purged
IsActive_all(b) == TRUE

\* line 228: the filter
IsActive(b) == b.active

\* line 228: the list comprehension
Purged(bs) == SelectSeq(bs, IsActive)

\* lines 220-228 on the list bs: the update loop, then the purge
Pass(bs) ==
    LET r == LoopFrom(bs, 1, nextId)
    IN  IF r.failed THEN r ELSE [r EXCEPT !.balls = Purged(r.balls)]

\* line 228: the loop is exhausted, inactive balls are removed
Purge ==
    /\ pc = "update"
    /\ i > Len(balls)
    /\ balls' = SelectSeq(balls, IsActive)
    /\ pc' = "render"
    /\ UNCHANGED <<running, i, tick, nclicks, nextId, seedVx, prevLen, accepted, lastClick>>

\* lines 231-234 and the test of line 194, for at most n passes
RenderUpTo(n) ==
    /\ pc = "render"
    /\ prevLen' = Len(balls)
    /\ IF running
       THEN /\ tick < n
            /\ pc' = "events"
            /\ tick' = tick + 1
       ELSE /\ pc' = "done"
            /\ UNCHANGED tick
    /\ UNCHANGED <<balls, running, i, nclicks, nextId, seedVx, accepted, lastClick>>

Render == RenderUpTo(MaxTicks)

Next ==
    \/ Quit
    \/ \E p \in ClickPoints, v \in ClickVels : Click(p[1], p[2], v[1], v[2])
    \/ BeginUpdate
    \/ StepBall
    \/ StepBallFails
    \/ Purge
    \/ Render

Spec == Init /\ [][Next]_vars

-----------------------------------------------------------------------------
(* main over a longer run, with the progress of the while loop *)

LiveRender == RenderUpTo(LiveTicks)

\* the steps the program takes by itself, as changes of its position:
\* BeginUpdate, StepBall, StepBallFails, Purge, LiveRender in this order
ProceedInLoop ==
    \/ pc = "update" /\ i <= Len(balls) /\ pc' = "update" /\ i' = i + 1
    \/ pc = "update" /\ i <= Len(balls) /\ pc' = "crashed" /\ i' = i
    \/ pc = "update" /\ i > Len(balls) /\ pc' = "render" /\ i' = i

Proceed ==
    \/ ProceedInLoop
    \/ pc = "events" /\ pc' = "update" /\ i' = 1
    \/ pc = "render" /\ running /\ tick < LiveTicks /\ pc' = "events" /\ i' = i
    \/ pc = "render" /\ ~running /\ pc' = "done" /\ i' = i

LiveNext ==
    \/ Quit
    \/ \E p \in ClickPoints, v \in ClickVels : Click(p[1], p[2], v[1], v[2])
    \/ BeginUpdate
    \/ StepBall
    \/ StepBallFails
    \/ Purge
    \/ LiveRender

\* the interpreter keeps executing the loop: a step of the body that is
\* possible is taken; events may or may not arrive
LiveSpec == Init /\ [][LiveNext]_vars /\ WF_<<pc, i>>(Proceed)

-----------------------------------------------------------------------------
(* the update loop and the purge of one pass, from any starting collection *)

\* x, y in pixels, radius, vx, vy: a ball at rest in the middle; the ball
\* whose update fails; a ball of the last generation, one of the first and
\* one of the third about to hit the bottom of the boundary
StartBalls ==
    {<<400, 200, Px(INITIAL_BALL_RADIUS), 0, 0>>,
     <<384, 52, Px(INITIAL_BALL_RADIUS), 0, -50>>,
     <<400, 541, 781, 0, 1000>>,
     <<400, 510, Px(INITIAL_BALL_RADIUS), 0, 1400>>,
     <<449, 529, 1531, -1000, 200>>}

LoopInit ==
    /\ \E n \in 1..MaxStart :
          \E f \in [1..n -> StartBalls] :
              /\ balls = [k \in 1..n |->
                             Ball(Px(f[k][1]), Px(f[k][2]), f[k][3], f[k][4], f[k][5],
                                  k, "seed", 0, 0)]
              /\ nextId = n + 1
              /\ prevLen = n
    /\ running = TRUE
    /\ pc = "update"
    /\ i = 1
    /\ tick = 1
    /\ nclicks = 0
    /\ seedVx = 0
    /\ accepted = 0
    /\ lastClick = <<0, 0>>

LoopNext ==
    \/ StepBall
    \/ StepBallFails
    \/ Purge

\* the interpreter does not stop inside the loop
LoopSpec == LoopInit /\ [][LoopNext]_vars /\ WF_<<pc, i>>(ProceedInLoop)

-----------------------------------------------------------------------------
(* class Ball on its own: any caller, any order of calls *)

BallPoints == {<<Px(400), Px(300)>>, <<Px(384), Px(52)>>, <<Px(400), Px(510)>>}
BallVels == {<<0, -50>>, <<200, -100>>, <<0, 1400>>}
BallRadii == {Px(INITIAL_BALL_RADIUS), Px(MIN_BALL_RADIUS), 781}
BallCooldowns == {0, 3}

\* a ball in any state of its fields, then calls of its methods
BallInit ==
    /\ \E p \in BallPoints, v \in BallVels, r \in BallRadii, a \in BOOLEAN,
          c \in BallCooldowns :
          balls = <<[Ball(p[1], p[2], r, v[1], v[2], 1, "seed", 0, 0)
                       EXCEPT !.active = a, !.collision_cooldown = c]>>
    /\ running = TRUE
    /\ pc = "ready"
    /\ i = 1
    /\ tick = 0
    /\ nclicks = 0
    /\ nextId = 2
    /\ seedVx = 0
    /\ prevLen = 1
    /\ accepted = 0
    /\ lastClick = <<0, 0>>

BallReady == pc \in {"ready", "updated", "split"} /\ tick < MaxCalls

\* balls[k].update() returns
CallUpdate ==
    \E k \in DOMAIN balls :
        /\ BallReady
        /\ ~UpdateFails(balls[k])
        /\ balls' = [balls EXCEPT ![k] = update(balls[k])]
        /\ pc' = "updated"
        /\ i' = k
        /\ tick' = tick + 1
        /\ UNCHANGED <<running, nclicks, nextId, seedVx, prevLen, accepted, lastClick>>

\* balls[k].update() raises ZeroDivisionError
CallUpdateFails ==
    \E k \in DOMAIN balls :
        /\ BallReady
        /\ UpdateFails(balls[k])
        /\ pc' = "crashed"
        /\ i' = k
        /\ tick' = tick + 1
        /\ UNCHANGED <<balls, running, nclicks, nextId, seedVx, prevLen, accepted, lastClick>>

\* balls[k].split(), the list returned appended to balls
CallSplit ==
    \E k \in DOMAIN balls :
        /\ BallReady
        /\ balls' = [balls EXCEPT ![k] = split_self(balls[k])] \o Numbered(split(balls[k]))
        /\ nextId' = nextId + Len(split(balls[k]))
        /\ pc' = "split"
        /\ i' = k
        /\ tick' = tick + 1
        /\ UNCHANGED <<running, nclicks, seedVx, prevLen, accepted, lastClick>>

BallNext ==
    \/ CallUpdate
    \/ CallUpdateFails
    \/ CallSplit

BallSpec == BallInit /\ [][BallNext]_vars

-----------------------------------------------------------------------------
(* Properties *)

\* the pass has been completed: purge done, the collection is drawn
EndOfTick == pc \in {"render", "done"}

Contained(b) == Dist2(b.x, b.y) <= (BoundaryR - b.radius) * (BoundaryR - b.radius)

\* the ball lies on the circle the containment clamp puts it on
OnClampCircle(b) ==
    LET reach == BoundaryR - b.radius - Px(1)
    IN  /\ Dist2(b.x, b.y) >= (reach - 2) * (reach - 2)
        /\ Dist2(b.x, b.y) <= (reach + 2) * (reach + 2)

\* C1: at the end of every pass (events, update loop, purge) every ball of the
\* collection satisfies distance(position, center) + radius <= BOUNDARY_RADIUS,
\* click-spawned balls and children of this pass included.
C1_Containment ==
    EndOfTick => \A k \in DOMAIN balls : Contained(balls[k])

\* a pass ends with a child split off in it and a ball that the containment
\* clamp has put back on its circle
C1_Witness ==
    /\ pc = "render"
    /\ \E k \in DOMAIN balls : balls[k].origin = "split" /\ balls[k].born = tick
    /\ \E k \in DOMAIN balls : OnClampCircle(balls[k])

SpeedAtMost(b, s) == Speed2(b) <= (s + SpeedTol) * (s + SpeedTol)
SpeedAtLeast(b, s) == Speed2(b) >= (s - SpeedTol) * (s - SpeedTol)

\* C2 as stated: whenever update has changed a ball's velocity, the ball's
\* speed is <= MAX_SPEED when update returns.
C2_Original ==
    \A k \in DOMAIN balls :
        balls[k].nupd > 0 => SpeedAtMost(balls[k], MaxSpeed)

\* C2 amended: the speed is clamped to MAX_SPEED after the gravity step of
\* every update; when update returns the speed is <= MAX_SPEED unless the
\* boundary-collision branch fired in that update.
C2_ClampAfterGravity ==
    \A k \in DOMAIN balls :
        (balls[k].nupd > 0 /\ ~balls[k].hit) => SpeedAtMost(balls[k], MaxSpeed)

\* an updated ball that did not bounce moves at the clamped speed
C2_Witness ==
    \E k \in DOMAIN balls :
        /\ balls[k].nupd > 0
        /\ ~balls[k].hit
        /\ ~balls[k].suppressed
        /\ SpeedAtLeast(balls[k], MaxSpeed)

\* C3: at the end of a pass every ball has speed <= MAX_SPEED, except a ball
\* whose boundary-collision branch fired in that pass: its speed is at least
\* min_speed, and the gravity-and-clamp step of its next update brings it
\* back to <= MAX_SPEED.
C3_SpeedBound ==
    EndOfTick =>
        \A k \in DOMAIN balls :
            /\ ~balls[k].hit => SpeedAtMost(balls[k], MaxSpeed)
            /\ balls[k].hit =>
                  /\ SpeedAtLeast(balls[k], min_speed)
                  /\ SpeedAtMost(Accelerate(balls[k]), MaxSpeed)
                  /\ ~Collides(Accelerate(balls[k]))

\* a ball that bounced in this pass is still in the collection, faster than
\* MAX_SPEED
C3_Witness ==
    /\ pc = "render"
    /\ \E k \in DOMAIN balls :
          /\ balls[k].hit
          /\ Speed2(balls[k]) > MaxSpeed * MaxSpeed


-----------------------------------------------------------------------------

MinRadius == Px(MIN_BALL_RADIUS)

\* one iteration of the update loop is taken
LoopStep == pc = "update" /\ pc' = "update" /\ i' = i + 1

ActiveCount(bs) == Cardinality({k \in DOMAIN bs : bs[k].active})

\* c is R / 1.4 up to the rounding of one division
IsChildRadius(c, R) == 14 * c - 10 * R <= 7 /\ 10 * R - 14 * c <= 7

HasBall(bs, id) == \E k \in DOMAIN bs : bs[k].id = id

ChildrenOf(bs, id) == {k \in DOMAIN bs : bs[k].parent = id}

\* C4: a successful split of an active ball of radius R > MIN_BALL_RADIUS
\* yields exactly 2 children, active and of radius R / 1.4, and marks the
\* parent inactive; the number of active balls grows by exactly 1.
C4_SplitConservation ==
    [][(LoopStep /\ balls[i].active /\ balls[i].radius > MinRadius /\ balls'[i].hit)
         => /\ Len(balls') = Len(balls) + 2
            /\ ~balls'[i].active
            /\ \A k \in Len(balls) + 1 .. Len(balls') :
                  /\ balls'[k].active
                  /\ balls'[k].parent = balls[i].id
                  /\ IsChildRadius(balls'[k].radius, balls[i].radius)
            /\ \A k \in DOMAIN balls : k # i => balls'[k] = balls[k]
            /\ ActiveCount(balls') = ActiveCount(balls) + 1]_vars

\* the ball just visited has split: it is inactive and its two children end
\* the list
C4_Witness ==
    /\ pc = "update"
    /\ i > 1
    /\ ~balls[i - 1].active
    /\ ChildrenOf(balls, balls[i - 1].id) = {Len(balls) - 1, Len(balls)}

\* C5: a ball with radius <= MIN_BALL_RADIUS never produces children and
\* never becomes inactive, whatever collisions it undergoes: after every step
\* it is still in the collection, active, and no ball has it as parent.
C5_SplitTermination ==
    [][\A k \in DOMAIN balls :
          balls[k].radius <= MinRadius
            => /\ \E j \in DOMAIN balls' :
                     balls'[j].id = balls[k].id /\ balls'[j].active
               /\ ChildrenOf(balls', balls[k].id) = {}]_vars

\* a ball at or below the minimum radius has collided twice and is active
C5_Witness ==
    \E k \in DOMAIN balls :
        /\ balls[k].radius <= MinRadius
        /\ balls[k].hit
        /\ balls[k].gap > 0
        /\ balls[k].active

\* C6 as stated: after a pass in which a ball's collision branch fired, the
\* branch cannot fire again for the same ball in any of the 5 subsequent
\* passes.
C6_Original ==
    \A k \in DOMAIN balls : balls[k].gap \notin 1..5

\* C6 amended: after a pass in which a ball's collision branch fired, the
\* branch cannot fire again for the same ball in any of the 4 subsequent
\* passes, even if its predicted position stays outside the boundary in each
\* of them (the cooldown of 5 is decremented in the pass that sets it).
C6_Debounce ==
    \A k \in DOMAIN balls :
        /\ balls[k].gap \notin 1..4
        /\ (balls[k].hit /\ balls[k].active) => balls[k].collision_cooldown = COOLDOWN - 1
        /\ balls[k].suppressed => ~balls[k].hit

\* in the 4th pass after its bounce a ball is predicted outside the boundary
\* and the branch is suppressed
C6_Witness ==
    \E k \in DOMAIN balls : balls[k].suppressed /\ balls[k].sinceHit = 4

\* the ball has split in this pass
SplitInPass(bs, id) == \E j \in DOMAIN bs : bs[j].parent = id /\ bs[j].born = tick

\* C7: a ball leaves the collection exactly when it has split, in the purge
\* of the pass of its split; a ball that did not split is in the collection
\* and active after the purge; the collection never shrinks from one pass to
\* the next.
C7_Lifecycle ==
    [][/\ \A k \in DOMAIN balls :
            /\ HasBall(balls', balls[k].id)
                  <=> ~(pc = "update" /\ pc' = "render" /\ SplitInPass(balls, balls[k].id))
            /\ ~balls[k].active <=> SplitInPass(balls, balls[k].id)
       /\ pc' = "render" =>
            /\ \A j \in DOMAIN balls' : balls'[j].active
            /\ Len(balls') >= prevLen]_vars

\* a pass ends with more balls than the pass before, one of them older than
\* the pass
C7_Witness ==
    /\ pc = "render"
    /\ Len(balls) > prevLen
    /\ \E k \in DOMAIN balls : balls[k].born < tick /\ balls[k].nupd = 1

ClickDist2(p) ==
    (p[1] - WIDTH \div 2) * (p[1] - WIDTH \div 2)
        + (p[2] - HEIGHT \div 2) * (p[2] - HEIGHT \div 2)

\* C8: a click spawns a ball of radius INITIAL_BALL_RADIUS at the click point
\* if and only if distance(click, center) < BOUNDARY_RADIUS; a click at
\* distance BOUNDARY_RADIUS or more leaves the collection unchanged.
C8_SpawnStrict ==
    [][nclicks' = nclicks + 1
         => IF ClickDist2(lastClick') < BOUNDARY_RADIUS * BOUNDARY_RADIUS
            THEN /\ Len(balls') = Len(balls) + 1
                 /\ SubSeq(balls', 1, Len(balls)) = balls
                 /\ balls'[Len(balls')].x = Px(lastClick'[1])
                 /\ balls'[Len(balls')].y = Px(lastClick'[2])
                 /\ balls'[Len(balls')].radius = Px(INITIAL_BALL_RADIUS)
                 /\ balls'[Len(balls')].active
            ELSE balls' = balls]_vars

\* a click exactly on the boundary circle was rejected
C8_Witness ==
    /\ nclicks = 1
    /\ ClickDist2(lastClick) = BOUNDARY_RADIUS * BOUNDARY_RADIUS
    /\ accepted = 0
    /\ Len(balls) = 1

\* the seed ball, with no horizontal velocity and no click so far
SeedAlone == seedVx = 0 /\ nclicks = 0

\* C9 as stated: in the pass of the seed ball's first boundary impact no child
\* is appended yet; the 2 children are appended in the next pass.
C9_Original ==
    SeedAlone =>
        \A k \in DOMAIN balls :
            (balls[k].id = 1 /\ balls[k].hit) => ~SplitInPass(balls, 1)

\* C9 amended: from the seed ball alone (radius 30, 100 above the center, no
\* horizontal velocity, no click), the update of its first boundary impact
\* sets should_split, and in that same pass exactly 2 children of radius
\* 30 / 1.4 are appended, the parent is marked inactive and the flag is
\* cleared; before the impact the seed ball is alone.
C9_SeedScenario ==
    SeedAlone =>
        \A k \in DOMAIN balls :
            balls[k].id = 1 =>
                IF balls[k].hit
                THEN /\ ~balls[k].active
                     /\ ~balls[k].should_split
                     /\ Len(balls) = 3
                     /\ ChildrenOf(balls, 1) = {2, 3}
                     /\ \A j \in {2, 3} :
                           /\ balls[j].born = tick
                           /\ balls[j].active
                           /\ IsChildRadius(balls[j].radius, Px(INITIAL_BALL_RADIUS))
                ELSE /\ balls[k].active
                     /\ balls[k].vx = 0
                     /\ Len(balls) = 1

\* the seed ball has hit the boundary in this pass
C9_Witness ==
    /\ SeedAlone
    /\ \E k \in DOMAIN balls : balls[k].id = 1 /\ balls[k].hit

\* C10: every ball of the collection, whether it was there when the pass
\* began, was spawned by a click of the pass or is a child of a split of the
\* pass, receives exactly one update in the pass.
C10_SameTickUpdate ==
    /\ pc = "update" =>
          \A k \in DOMAIN balls : balls[k].nupd = IF k < i THEN 1 ELSE 0
    /\ (EndOfTick \/ pc = "crashed") => \A k \in DOMAIN balls : balls[k].nupd = 1

\* C10 in the passes that no failing update cuts short
C10_UnlessUpdateFails ==
    /\ pc = "update" =>
          \A k \in DOMAIN balls : balls[k].nupd = IF k < i THEN 1 ELSE 0
    /\ EndOfTick => \A k \in DOMAIN balls : balls[k].nupd = 1

\* the loop is exhausted; a ball spawned by a click of this pass has split in
\* it, and it and its children have been updated once
SameTickUpdateSeen ==
    /\ pc = "update"
    /\ i > Len(balls)
    /\ \E k \in DOMAIN balls :
          /\ balls[k].origin = "click"
          /\ balls[k].born = tick
          /\ balls[k].nupd = 1
          /\ ChildrenOf(balls, balls[k].id) # {}
          /\ \A j \in ChildrenOf(balls, balls[k].id) :
                balls[j].born = tick /\ balls[j].nupd = 1

-----------------------------------------------------------------------------

\* v . n for the outward normal n at the position of `at`, in 1/Scale
Normal(at, v) ==
    LET n == Direction(at.x - CENTER_X, at.y - CENTER_Y)
    IN  RDiv(v.vx * n[1] + v.vy * n[2], Unit)

\* C11: when a ball with radius <= MIN_BALL_RADIUS hits the boundary, its
\* update sets should_split and reflects its velocity, split() returns the
\* empty list, and afterwards the ball is active, unsplit, keeps the
\* reflected velocity, and the collection gains no ball.
C11_TooSmallSplit ==
    [][(LoopStep /\ balls[i].active /\ balls[i].radius <= MinRadius /\ balls'[i].hit)
         => LET before == balls[i]
                a == Accelerate(before)
                u == update(before)
                after == balls'[i]
            IN  /\ u.should_split
                /\ Normal(before, a) > 1 => Normal(before, u) < 0
                /\ Normal(before, a) < -1 => Normal(before, u) > 0
                /\ SpeedAtLeast(u, min_speed)
                /\ split(u) = <<>>
                /\ after.active
                /\ after.vx = u.vx /\ after.vy = u.vy
                /\ after.x = u.x /\ after.y = u.y
                /\ ChildrenOf(balls', before.id) = {}
                /\ Len(balls') = Len(balls)]_vars

\* a ball at or below the minimum radius has just had its first bounce
C11_Witness ==
    /\ pc = "update"
    /\ i > 1
    /\ i - 1 <= Len(balls)
    /\ balls[i - 1].radius <= MinRadius
    /\ balls[i - 1].hit
    /\ balls[i - 1].gap = 0
    /\ balls[i - 1].active

\* C12: a zero speed at the min-speed rescale is treated as "no rescale
\* needed"; no reachable ball state makes update fail.
C12_NoFailure ==
    /\ pc # "crashed"
    /\ \A k \in DOMAIN balls : ~UpdateFails(balls[k])

\* the while loop has been left
Terminated == pc \in {"done", "crashed"}

\* C13: the loop terminates only after a Quit was observed in an event poll,
\* and only between complete passes: every ball updated, purge done, the
\* collection drawn.
C13_Quit ==
    Terminated =>
        /\ ~running
        /\ pc = "done"
        /\ \A k \in DOMAIN balls : balls[k].nupd = 1 /\ balls[k].active

\* C13 in the behaviours that no failing update cuts short
C13_UnlessUpdateFails ==
    pc = "done" =>
        /\ ~running
        /\ \A k \in DOMAIN balls : balls[k].nupd = 1 /\ balls[k].active

\* a call of update was made in this step, on balls[i']
UpdateCalled == pc' \in {"updated", "crashed"} /\ tick' = tick + 1

\* C14: update on an inactive ball returns False and leaves position,
\* velocity, should_split and collision_cooldown unchanged; update on an
\* active ball always returns True.
C14_UpdateReturn ==
    [][UpdateCalled
         => LET b == balls[i']
            IN  /\ pc' = "updated"
                /\ ~b.active => /\ update_result(b) = FALSE
                                /\ balls'[i'] = b
                /\ b.active => update_result(b) = TRUE]_vars

\* C14 for the calls of update that return
C14_UnlessUpdateFails ==
    [][(UpdateCalled /\ pc' = "updated")
         => LET b == balls[i']
            IN  /\ ~b.active => /\ update_result(b) = FALSE
                                /\ balls'[i'] = b
                /\ b.active => update_result(b) = TRUE]_vars

\* update has been called on an inactive ball and has returned
InactiveUpdateSeen == pc = "updated" /\ ~balls[i].active

\* C11 for any caller: split() on a ball at or below the minimum radius,
\* the radius exactly MIN_BALL_RADIUS included, changes nothing
C11_ExactMinimum ==
    [][(pc' = "split" /\ tick' = tick + 1 /\ balls[i'].radius <= MinRadius)
         => /\ split(balls[i']) = <<>>
            /\ balls' = balls]_vars

\* split() has been called on an active ball of radius exactly MIN_BALL_RADIUS
ExactMinimumSeen ==
    pc = "split" /\ balls[i].radius = MinRadius /\ balls[i].active /\ Len(balls) = 1

\* C15: should_split is consumed in the pass that sets it: at the end of
\* every pass (and between any two iterations of the update loop) every
\* ball of the collection has should_split = False, whether or not its
\* split produced children.
C15_FlagConsumed ==
    \A k \in DOMAIN balls : balls[k].should_split = FALSE

\* a pass ends in which one ball hit the boundary and was too small to
\* split and another ball's split produced children
C15_Witness ==
    /\ pc = "render"
    /\ \E k \in DOMAIN balls : balls[k].hit /\ balls[k].radius <= MinRadius
    /\ \E k \in DOMAIN balls : balls[k].born = tick /\ balls[k].origin = "split"

\* C16: collision_cooldown is always in 0..5; every update of an active
\* ball decreases it by exactly 1 if it was > 0 at the decrement (a
\* collision pass ends with 4); while it is > 0 at the collision test only
\* the reflection / should_split branch is suppressed: gravity, the speed
\* clamp, the move and the containment clamp are still applied.
C16_Cooldown ==
    [][/\ \A k \in DOMAIN balls' : balls'[k].collision_cooldown \in 0..COOLDOWN
       /\ (LoopStep /\ balls[i].active)
            => LET before == balls[i]
                   after == balls'[i]
                   c == before.collision_cooldown
                   a == clamp_speed([before EXCEPT !.vy = @ + GRAVITY])
               IN  /\ after.hit => after.collision_cooldown = COOLDOWN - 1
                   /\ ~after.hit => after.collision_cooldown = IF c > 0 THEN c - 1 ELSE 0
                   /\ c > 0 =>
                        /\ ~after.hit
                        /\ Len(balls') = Len(balls)
                        /\ after.active
                        /\ after.vx = a.vx /\ after.vy = a.vy
                        /\ SpeedAtMost(after, MaxSpeed)
                        /\ Contained(after)
                        /\ ~Outside(before.x + a.vx, before.y + a.vy, before.radius)
                             => after.x = before.x + a.vx /\ after.y = before.y + a.vy
                        /\ Outside(before.x + a.vx, before.y + a.vy, before.radius)
                             => after.suppressed /\ OnClampCircle(after)]_vars

\* a ball whose predicted position left the boundary while its cooldown
\* was > 0 has just been moved and put back by the containment clamp, and
\* its cooldown has run out
C16_Witness ==
    /\ pc = "update"
    /\ i > 1
    /\ i - 1 <= Len(balls)
    /\ balls[i - 1].suppressed
    /\ balls[i - 1].sinceHit > 0
    /\ balls[i - 1].collision_cooldown = 0
    /\ OnClampCircle(balls[i - 1])

\* C16 for any caller: an update that starts with cooldown > 0 decrements it
\* by 1, does not set should_split, and applies gravity, the speed clamp,
\* the move and the containment clamp
C16_AnyCaller ==
    [][(pc' = "updated" /\ tick' = tick + 1 /\ balls[i'].active
          /\ balls[i'].collision_cooldown > 0)
         => LET before == balls[i']
                after == balls'[i']
                a == clamp_speed([before EXCEPT !.vy = @ + GRAVITY])
            IN  /\ after.collision_cooldown = before.collision_cooldown - 1
                /\ after.should_split = before.should_split
                /\ after.vx = a.vx /\ after.vy = a.vy
                /\ Contained(after)
                /\ ~Outside(before.x + a.vx, before.y + a.vy, before.radius)
                     => after.x = before.x + a.vx /\ after.y = before.y + a.vy]_vars

\* update has been called with cooldown 3 on a ball about to leave the
\* boundary: the ball was put back and the cooldown is 2
SuppressedAtThree ==
    /\ pc = "updated"
    /\ balls[i].collision_cooldown = 2
    /\ ~balls[i].should_split
    /\ OnClampCircle(balls[i])

\* every ball of the collection is at or below the minimum radius
Settled == \A k \in DOMAIN balls : balls[k].radius <= MinRadius

\* the identities of the balls in the collection
BallIds(bs) == {bs[k].id : k \in DOMAIN bs}

\* C17: if passes keep being executed and no further clicks arrive, every
\* ball with radius > MIN_BALL_RADIUS eventually hits the boundary and
\* splits: eventually every ball of the collection has radius <=
\* MIN_BALL_RADIUS, and from then on the set of balls no longer changes
\* (unless a click adds a ball).
C17_SplitsToMinimum ==
    /\ (<>Terminated) \/ (<>[]Settled)
    /\ [][(Settled /\ accepted' = accepted) => BallIds(balls') = BallIds(balls)]_vars

\* the seed ball's 16 descendants of radius 7.81 are all that is left, and
\* passes are still being executed
C17_Witness ==
    /\ Settled
    /\ running
    /\ pc = "update"
    /\ accepted = 0
    /\ Len(balls) = 16
    /\ \E k \in DOMAIN balls : balls[k].hit

\* the fields of a ball the program has (the colour is not modelled)
Fields(b) ==
    <<b.x, b.y, b.radius, b.vx, b.vy, b.should_split, b.active, b.collision_cooldown>>

StateSet(bs) == {Fields(bs[k]) : k \in DOMAIN bs}

\* orders of a list of n balls: reversed, rotated by one, adjacent pairs
\* exchanged
Orders(n) ==
    {[k \in 1..n |-> n + 1 - k], [k \in 1..n |-> (k % n) + 1]}
    \cup {[k \in 1..n |-> IF k = j THEN j + 1 ELSE IF k = j + 1 THEN j ELSE k] :
            j \in 1..(IF n - 1 < MaxSwaps THEN n - 1 ELSE MaxSwaps)}

Permuted(bs, p) == [k \in 1..Len(bs) |-> bs[p[k]]]

\* the update loop is about to start
PassStart == pc = "update" /\ i = 1

\* C18: permuting the order of the balls at the start of a pass yields the
\* same resulting set of ball states.
C18_OrderIndependence ==
    PassStart =>
        \A p \in Orders(Len(balls)) :
            StateSet(Pass(Permuted(balls, p)).balls) = StateSet(Pass(balls).balls)

\* C18 for the passes in which no update fails
C18_UnlessUpdateFails ==
    (PassStart /\ ~Pass(balls).failed) =>
        \A p \in Orders(Len(balls)) :
            /\ ~Pass(Permuted(balls, p)).failed
            /\ StateSet(Pass(Permuted(balls, p)).balls) = StateSet(Pass(balls).balls)

\* the steps of the program compute Pass: a step of the loop leaves the
\* outcome of the rest of the loop as it was, touches no ball but balls[i]
\* and appends the children after every ball already present; the purge
\* keeps the survivors in their order
C18_OrderKept ==
    [][/\ LoopStep =>
            /\ LoopFrom(balls', i', nextId') = LoopFrom(balls, i, nextId)
            /\ \A k \in DOMAIN balls : k # i => balls'[k] = balls[k]
            /\ balls'[i].id = balls[i].id
            /\ \A k \in (Len(balls) + 1)..Len(balls') :
                   balls'[k].parent = balls[i].id /\ balls'[k].born = tick
       /\ (pc = "update" /\ pc' = "crashed") => LoopFrom(balls, i, nextId).failed
       /\ (pc = "update" /\ pc' = "render") =>
            /\ LoopFrom(balls, i, nextId) = [balls |-> balls, failed |-> FALSE]
            /\ balls' = Purged(balls)
            /\ \A a, b \in DOMAIN balls' :
                   (a < b /\ balls'[b].born < tick) => balls'[a].born < tick]_vars

\* a pass of at least 4 balls starts in which balls will split
SplittingPassSeen ==
    /\ PassStart
    /\ Len(balls) >= 4
    /\ ~Pass(balls).failed
    /\ Len(Pass(balls).balls) > Len(balls)

\* the radius of a ball split k times from a ball of the initial radius
RECURSIVE GenRadius(_)
GenRadius(k) == IF k = 0 THEN Px(INITIAL_BALL_RADIUS) ELSE ChildRadius(GenRadius(k - 1))

\* the first generation that split() refuses
LastGen == CHOOSE k \in 0..8 : /\ GenRadius(k) <= Px(MIN_BALL_RADIUS)
                               /\ \A j \in 0..(k - 1) : GenRadius(j) > Px(MIN_BALL_RADIUS)

GenRadii == [k \in 0..LastGen |-> GenRadius(k)]

HasGen(b, k) == b.radius = GenRadii[k]

\* the balls of the last generation a ball of generation k can end as
RECURSIVE Leaves(_)
Leaves(k) == IF k >= LastGen THEN 1 ELSE 2 * Leaves(k + 1)

LeavesOf == [r \in {GenRadii[k] : k \in 0..LastGen} |->
                Leaves(CHOOSE k \in 0..LastGen : GenRadii[k] = r)]

RECURSIVE ActiveLeaves(_, _)
ActiveLeaves(bs, n) ==
    IF n = 0 THEN 0
    ELSE ActiveLeaves(bs, n - 1) + (IF bs[n].active THEN LeavesOf[bs[n].radius] ELSE 0)

Roots == 1 + accepted

\* C19 as stated: the number of balls in the collection never exceeds
\* 16 * (1 + number of accepted click-spawns).
C19_Original == Len(balls) <= 16 * Roots

\* C19: every ball of the collection has radius INITIAL_BALL_RADIUS / 1.4^k
\* for some k in 0..4; only balls with k <= 3 can split; the active balls
\* stand for exactly 16 * (1 + accepted) balls of the last generation, so
\* there are at most that many active balls at any time, and at most that
\* many balls in the collection whenever the update loop is not running.
C19_BoundedGenerations ==
    /\ LastGen = 4
    /\ Leaves(0) = 16
    /\ \A n \in DOMAIN balls :
          /\ \E k \in 0..4 : HasGen(balls[n], k)
          /\ CanSplit(balls[n]) => \E k \in 0..3 : HasGen(balls[n], k)
          /\ HasGen(balls[n], 4) => ~CanSplit(balls[n])
    /\ ActiveLeaves(balls, Len(balls)) = 16 * Roots
    /\ ActiveCount(balls) <= 16 * Roots
    /\ pc \in {"events", "render", "done"} => Len(balls) <= 16 * Roots

\* a pass ends with a click-spawned family and the seed's family both at
\* 16 balls of the last generation
C19_Witness ==
    /\ pc = "render"
    /\ accepted = 1
    /\ Len(balls) = 32
    /\ \A n \in DOMAIN balls : HasGen(balls[n], 4)

\* the balls the loop can visit for a ball of the list: itself and, if it
\* is active, every ball that can descend from it
Visits(b) == IF b.active THEN 2 * LeavesOf[b.radius] - 1 ELSE 1

\* a bound of the iterations the loop has left, from index j of the list bs
RECURSIVE Remaining(_, _)
Remaining(bs, j) == IF j > Len(bs) THEN 0 ELSE Visits(bs[j]) + Remaining(bs, j + 1)

\* C20: the update loop of a pass, which iterates over the list it extends
\* with split children, always terminates, from any starting collection,
\* even when children created during the pass collide and split again
\* within it: every iteration lowers a bound of the iterations left, and the
\* loop is left for the purge (or by the failing update).
C20_TickTermination ==
    /\ (pc = "update") ~> (pc \in {"render", "crashed"})
    /\ [][LoopStep => /\ Remaining(balls', i') < Remaining(balls, i)
                      /\ Remaining(balls', i') >= 0]_vars

\* a pass has ended in which a child created during the pass hit the
\* boundary and split again: a ball of the collection descends from a ball
\* that was not in the starting collection
C20_Witness ==
    /\ pc = "render"
    /\ \E k \in DOMAIN balls :
          /\ balls[k].parent > prevLen
          /\ balls[k].born = tick
          /\ balls[k].origin = "split"

====
